---- MODULE Spec2Model ----
(***************************************************************************)
(* Model of fitness_app.py: a Streamlit page script with a form callback   *)
(* (save_workout_callback), a Firestore collection of workout documents    *)
(* and a dashboard that resamples the documents into weekly buckets.       *)
(*                                                                         *)
(* Numbers.  Durations are whole minutes.  Distances are counted in        *)
(* hundredths of a kilometre (5.00 km is 500).  A calendar date is the     *)
(* number of days since 1970-01-01; its "%Y-%m-%d" string is the triple    *)
(* <<year, month, day>>.  A Timestamp is [day, late]: the day, and whether *)
(* the instant lies after that day's midnight.                             *)
(*                                                                         *)
(* Text.  The pace string is a sequence of one-character strings, so that  *)
(* digits and zero padding are computed; notes and structure text are      *)
(* opaque strings; None is the empty tuple.                                *)
(*                                                                         *)
(* Floating point.  Python evaluates duration / distance and the products  *)
(* that follow in IEEE doubles.  Where the exact value of the quantity     *)
(* that is truncated is not an integer the double result truncates to the  *)
(* same integer.  Where it is an integer and the operands are not exactly  *)
(* representable in binary, the double lands on the integer or just below  *)
(* it; the model draws that outcome ("exact" or "below") as an input of    *)
(* the step.                                                               *)
(*                                                                         *)
(* Streamlit.  st.session_state is the function ss; DOMAIN ss is the set   *)
(* of keys present.  Widgets inside st.form deliver their values on        *)
(* submit (FormSubmit), then the on_click callback runs, then the script   *)
(* reruns (RunScript).  A widget that a script run does not render loses   *)
(* its key at the end of the run unless code assigned the key since the    *)
(* widget was last rendered.  An exception in a callback ends the run     *)
(* without executing the script.                                           *)
(***************************************************************************)
EXTENDS Integers, Sequences, FiniteSets, Bags, TLC

VARIABLES
    page,             \* the sidebar radio "Go to"
    ss,               \* st.session_state
    assigned,         \* widget keys written by code and not yet rendered again
    store,            \* db.collection("workouts"): a bag of documents
    pc,               \* "idle", "callback" (on_click pending) or "rerun"
    activity_filter,  \* the dashboard's "Filter Activity" selectbox
    dash,             \* what the last dashboard run computed
    nConfirm,         \* history: times the user ticked "Ready to Save?"
    nAdded            \* history: calls of add_workout

vars == <<page, ss, assigned, store, pc, activity_filter, dash, nConfirm, nAdded>>

-----------------------------------------------------------------------------
(* Bounds of the model: how often the user ticks "Ready to Save?", and how   *)
(* many records are added before the user stops editing the form           *)

MaxFormConfirms == 1
MaxDashConfirms == 2

-----------------------------------------------------------------------------
(* Option lists and literals of the script *)

Pages == <<"Dashboard", "Log Workout", "History / Edit">>

Categories == <<"Running", "Cycling", "Swimming", "Gym", "Stretching">>

RunTypes == <<"Easy Run", "Long Run", "Workout">>

RideTypes == <<"Easy Spin", "Long Ride", "Workout">>

AllActivities == "All Activities"

None == <<>>

WarningText == <<"Please check 'Ready to Save' to confirm.">>

SuccessText(sub_type, category) == <<"Saved", sub_type, category>>

NA == <<"N", "/", "A">>

WindowWeeks == 12

Range(seq) == {seq[i] : i \in 1..Len(seq)}

-----------------------------------------------------------------------------
(* Calendar: datetime.date <-> "%Y-%m-%d" <-> pandas Timestamp *)

\* date.strftime("%Y-%m-%d"): days since 1970-01-01 to <<year, month, day>>
Strftime(days) ==
    LET z    == days + 719468
        era  == z \div 146097
        doe  == z - era * 146097
        yoe  == (doe - doe \div 1460 + doe \div 36524 - doe \div 146096) \div 365
        doy  == doe - (365 * yoe + yoe \div 4 - yoe \div 100)
        mp   == (5 * doy + 2) \div 153
        d    == doy - (153 * mp + 2) \div 5 + 1
        m    == IF mp < 10 THEN mp + 3 ELSE mp - 9
        y    == yoe + era * 400 + (IF m <= 2 THEN 1 ELSE 0)
    IN  <<y, m, d>>

\* pd.to_datetime("YYYY-MM-DD"): the midnight of that date, as a day number
ToDatetime(ymd) ==
    LET y0   == ymd[1] - (IF ymd[2] <= 2 THEN 1 ELSE 0)
        era  == y0 \div 400
        yoe  == y0 - era * 400
        mp   == IF ymd[2] > 2 THEN ymd[2] - 3 ELSE ymd[2] + 9
        doy  == (153 * mp + 2) \div 5 + ymd[3] - 1
        doe  == yoe * 365 + yoe \div 4 - yoe \div 100 + doy
    IN  era * 146097 + doe - 719468

\* Timestamp.dayofweek: Monday is 0 (1970-01-01 was a Thursday)
DayOfWeek(day) == (day + 3) % 7

-----------------------------------------------------------------------------
(* Text formatting *)

Digit(n) == <<"0", "1", "2", "3", "4", "5", "6", "7", "8", "9">>[n + 1]

RECURSIVE Digits(_)
Digits(n) == IF n < 10 THEN <<Digit(n)>> ELSE Digits(n \div 10) \o <<Digit(n % 10)>>

\* f"{n}" of an int
Str(n) == IF n < 0 THEN <<"-">> \o Digits(-n) ELSE Digits(n)

\* f"{n:02d}"
Fmt02d(n) == IF Len(Str(n)) < 2 THEN <<"0">> \o Str(n) ELSE Str(n)

\* int(x) of the quotient num / den, den > 0: truncation toward zero
IntTrunc(num, den) == IF num >= 0 THEN num \div den ELSE -((-num) \div den)

-----------------------------------------------------------------------------
(* st.session_state *)

EmptyState == [k \in {} |-> None]

Has(s, k) == k \in DOMAIN s

\* st.session_state.get(k, default)
Get(s, k, default) == IF Has(s, k) THEN s[k] ELSE default

\* st.session_state[k] = v
Put(s, k, v) == [x \in DOMAIN s \cup {k} |-> IF x = k THEN v ELSE s[x]]

\* if k in st.session_state: st.session_state[k] = v
PutIfPresent(s, k, v) == IF Has(s, k) THEN Put(s, k, v) ELSE s

\* The keyed widgets of the "Log Workout" page
FormKeys ==
    {"date", "category", "subtype_run", "subtype_ride", "structure_input",
     "duration", "rpe", "distance", "manual_pace", "pace_input",
     "distance_cycle", "distance_swim", "notes", "confirm_save"}

\* those declared inside st.form("workout_form")
InFormKeys == FormKeys \ {"date", "category"}

\* The value a widget takes when its key is absent: its value argument, the
\* first option of a selectbox, min_value of the duration input
WidgetDefault(k, today) ==
    CASE k = "date"            -> today
      [] k = "category"        -> Categories[1]
      [] k = "subtype_run"     -> RunTypes[1]
      [] k = "subtype_ride"    -> RideTypes[1]
      [] k = "structure_input" -> ""
      [] k = "duration"        -> 1
      [] k = "rpe"             -> 5
      [] k = "distance"        -> 0
      [] k = "manual_pace"     -> FALSE
      [] k = "pace_input"      -> <<>>
      [] k = "distance_cycle"  -> 0
      [] k = "distance_swim"   -> 0
      [] k = "notes"           -> ""
      [] k = "confirm_save"    -> FALSE

\* What each widget admits (its min_value, max_value or options)
WidgetAdmits(k, v) ==
    CASE k = "duration"     -> v >= 1
      [] k = "rpe"          -> v >= 1 /\ v <= 10
      [] k = "distance"     -> v >= 0
      [] k = "subtype_run"  -> v \in Range(RunTypes)
      [] k = "subtype_ride" -> v \in Range(RideTypes)
      [] k = "category"     -> v \in Range(Categories)
      [] OTHER              -> TRUE

\* is_interval of the form
IsInterval(s) ==
    LET cat == Get(s, "category", Categories[1])
    IN  \/ cat = "Running" /\ Get(s, "subtype_run", RunTypes[1]) = "Workout"
        \/ cat = "Cycling" /\ Get(s, "subtype_ride", RideTypes[1]) = "Workout"

\* The keyed widgets one run of the "Log Workout" page renders
LogWidgets(s) ==
    LET cat == Get(s, "category", Categories[1])
    IN  {"date", "category", "duration", "rpe", "notes", "confirm_save"}
        \cup (IF cat = "Running" THEN {"subtype_run", "distance", "manual_pace"} ELSE {})
        \cup (IF cat = "Running" /\ Get(s, "manual_pace", FALSE) THEN {"pace_input"} ELSE {})
        \cup (IF cat = "Cycling" THEN {"subtype_ride", "distance_cycle"} ELSE {})
        \cup (IF cat = "Swimming" THEN {"distance_swim"} ELSE {})
        \cup (IF IsInterval(s) THEN {"structure_input"} ELSE {})

\* if st.session_state.get(k): ...; st.session_state[k] = None
ShowAndClear(s, k) == IF Get(s, k, None) # None THEN Put(s, k, None) ELSE s

\* The "Log Workout" branch of the script: messages, then the widgets
LogWorkoutPage(s, today) ==
    LET s1 == ShowAndClear(ShowAndClear(s, "success_msg"), "warning_msg")
    IN  [k \in DOMAIN s1 \cup LogWidgets(s1) |->
            IF Has(s1, k) THEN s1[k] ELSE WidgetDefault(k, today)]

\* End of a script run: the keys of widgets that were not rendered go,
\* unless code assigned them since
RemoveStaleWidgets(s, renderedKeys, asg) ==
    [k \in {x \in DOMAIN s : x \notin FormKeys \/ x \in renderedKeys \/ x \in asg} |-> s[k]]

\* The widgets on screen between runs
Rendered == (DOMAIN ss \cap FormKeys) \ assigned

-----------------------------------------------------------------------------
(* save_workout_callback: the record it builds *)

RECURSIVE GCD(_, _)
GCD(a, b) == IF b = 0 THEN a ELSE GCD(b, a % b)

RECURSIVE IsPowerOfTwo(_)
IsPowerOfTwo(n) == n = 1 \/ (n > 1 /\ n % 2 = 0 /\ IsPowerOfTwo(n \div 2))

\* duration / distance is computed without rounding error: the distance (a
\* multiple of 0.25 km) and the quotient are exactly representable in binary
BinaryExact(duration, distance) ==
    /\ distance % 25 = 0
    /\ IsPowerOfTwo(distance \div GCD(duration * 100, distance))

ZeroDivisionError == <<"ZeroDivisionError">>

\* Lines 107-110: pace_decimal = duration / distance; minutes = int(pace_decimal);
\* seconds = int((pace_decimal - minutes) * 60); f"{minutes}:{seconds:02d} /km"
RunningPace(duration, distance, rd) ==
    IF distance = 0 THEN ZeroDivisionError
    ELSE
    LET num     == duration * 100
        below   == rd = "below"
        minutes == IF below /\ num % distance = 0
                   THEN IntTrunc(num, distance) - 1
                   ELSE IntTrunc(num, distance)
        secnum  == (num - minutes * distance) * 60
        seconds == IF below THEN IntTrunc(secnum, distance) - 1
                   ELSE IntTrunc(secnum, distance)
    IN  Str(minutes) \o <<":">> \o Fmt02d(seconds) \o <<" ", "/", "k", "m">>

\* Lines 114-115: speed = distance / (duration / 60); f"{speed:.1f} km/h"
CyclingPace(duration, distance, rd) ==
    IF duration = 0 THEN ZeroDivisionError
    ELSE
    LET num    == 6 * distance          \* ten times the speed is num / duration
        fl     == num \div duration
        rem    == num % duration
        tenths == IF 2 * rem > duration \/ (2 * rem = duration /\ rd # "below")
                  THEN fl + 1 ELSE fl
    IN  Str(tenths \div 10) \o <<".", Digit(tenths % 10)>> \o <<" ", "k", "m", "/", "h">>

\* Lines 98-117, distance
DistanceOf(s) ==
    IF s.category = "Running" THEN s.distance
    ELSE IF s.category = "Cycling" THEN s.distance_cycle
    ELSE IF s.category = "Swimming" THEN s.distance_swim
    ELSE 0

\* What lines 107-109 and 114-115 give in CPython (IEEE binary64) for the
\* values the input sets below offer, where the exact quantity is an integer
\* and the operands are not exact in binary: <<category, duration, distance>>.
\* 4 / 3.0 gives "1:19 /km" and 30 / 6.25 gives "4:47 /km"; the others land on
\* the integer (1 / 3.0 gives "0:20 /km", 0.25 km in 4 minutes "3.8 km/h").
Binary64Below == {<<"Running", 4, 300>>, <<"Running", 30, 625>>}

Binary64Exact ==
    {<<"Running", 1, 300>>, <<"Running", 1, 500>>, <<"Running", 4, 500>>,
     <<"Running", 45, 625>>, <<"Cycling", 4, 25>>}

\* The outcomes of the double arithmetic for the values in the session
FloatOutcomes(s) ==
    LET cat == s.category
        inexact ==
            \/ /\ cat = "Running" /\ Has(s, "distance") /\ Has(s, "manual_pace")
               /\ ~s.manual_pace /\ s.distance > 0
               /\ (s.duration * 6000) % s.distance = 0
               /\ ~BinaryExact(s.duration, s.distance)
            \/ /\ cat = "Cycling" /\ Has(s, "distance_cycle")
               /\ s.distance_cycle > 0 /\ s.duration > 0
               /\ 2 * ((6 * s.distance_cycle) % s.duration) = s.duration
        key == <<cat, s.duration, DistanceOf(s)>>
    IN  IF ~inexact \/ key \in Binary64Exact THEN {"exact"}
        ELSE IF key \in Binary64Below THEN {"below"}
        ELSE {"exact", "below"}

\* Variant: the callback without its guard on the checkbox
NotConfirmed_Unguarded(s) == FALSE

\* Line 74: if not st.session_state.confirm_save
NotConfirmed(s) == ~s.confirm_save

\* Attribute access on a key that is absent raises AttributeError
RaisesAttributeError(s) ==
    LET cat == s.category
    IN  \/ /\ cat = "Running"
           /\ \/ ~Has(s, "subtype_run")
              \/ s.subtype_run = "Workout" /\ ~Has(s, "structure_input")
              \/ ~Has(s, "distance")
              \/ ~Has(s, "manual_pace")
              \/ s.manual_pace /\ ~Has(s, "pace_input")
        \/ /\ cat = "Cycling"
           /\ \/ ~Has(s, "subtype_ride")
              \/ s.subtype_ride = "Workout" /\ ~Has(s, "structure_input")
              \/ ~Has(s, "distance_cycle")
        \/ cat = "Swimming" /\ ~Has(s, "distance_swim")

\* Lines 85-95, sub_type
SubTypeOf(s) ==
    IF s.category = "Running" THEN s.subtype_run
    ELSE IF s.category = "Cycling" THEN s.subtype_ride
    ELSE "Normal"

\* Variant: the text area's content is taken whatever the sub-type
StructureOf_Stale(s) ==
    IF Has(s, "structure_input") THEN s.structure_input ELSE ""

\* Lines 85-95, structure
StructureOf(s) ==
    IF s.category = "Running" /\ s.subtype_run = "Workout" THEN s.structure_input
    ELSE IF s.category = "Cycling" /\ s.subtype_ride = "Workout" THEN s.structure_input
    ELSE ""

\* Variant: the Running branch divides without looking at the distance
PaceOf_Unguarded(s, rd) ==
    IF s.category = "Running" THEN
        IF s.manual_pace THEN s.pace_input
        ELSE RunningPace(s.duration, s.distance, rd)
    ELSE IF s.category = "Cycling" THEN
        IF s.distance_cycle > 0 /\ s.duration > 0
        THEN CyclingPace(s.duration, s.distance_cycle, rd)
        ELSE NA
    ELSE NA

\* Lines 99-117, pace_str
PaceOf(s, rd) ==
    IF s.category = "Running" THEN
        IF s.manual_pace THEN s.pace_input
        ELSE IF s.distance > 0 THEN RunningPace(s.duration, s.distance, rd)
        ELSE NA
    ELSE IF s.category = "Cycling" THEN
        IF s.distance_cycle > 0 /\ s.duration > 0
        THEN CyclingPace(s.duration, s.distance_cycle, rd)
        ELSE NA
    ELSE NA

\* add_workout: the document pushed to the collection (created_at is the
\* server's timestamp and is read nowhere)
add_workout(date, category, sub_type, duration, distance, pace, structure, rpe, notes) ==
    [date         |-> Strftime(date),
     category     |-> category,
     sub_type     |-> sub_type,
     duration_min |-> duration,
     distance_km  |-> distance,
     pace         |-> pace,
     structure    |-> structure,
     rpe          |-> rpe,
     notes        |-> notes]

\* Line 120
BuildDoc(s, rd) ==
    add_workout(s.date, s.category, SubTypeOf(s), s.duration, DistanceOf(s),
                PaceOf(s, rd), StructureOf(s), s.rpe, s.notes)

\* Variant: "Reset inputs" that leaves the checkbox ticked
ResetInputs_KeepTick(s) ==
    LET s1 == Put(s, "success_msg", SuccessText(SubTypeOf(s), s.category))
        s2 == Put(s1, "warning_msg", None)
        s3 == Put(s2, "duration", 30)
    IN  Put(s3, "notes", "")

\* Lines 122-135: the messages and "Reset inputs"
ResetInputs(s) ==
    LET s1  == Put(s, "success_msg", SuccessText(SubTypeOf(s), s.category))
        s2  == Put(s1, "warning_msg", None)
        s3  == Put(s2, "duration", 30)
        s4  == Put(s3, "notes", "")
        s5  == Put(s4, "confirm_save", FALSE)
        s6  == Put(s5, "manual_pace", FALSE)
        s7  == Put(s6, "pace_input", <<>>)
        s8  == Put(s7, "rpe", 5)
        s9  == PutIfPresent(s8, "structure_input", "")
        s10 == PutIfPresent(s9, "distance", 0)
        s11 == PutIfPresent(s10, "distance_cycle", 0)
    IN  PutIfPresent(s11, "distance_swim", 0)

\* The widget keys lines 126-135 assign
ResetKeys(s) ==
    {"duration", "notes", "confirm_save", "manual_pace", "pace_input", "rpe"}
    \cup ({"structure_input", "distance", "distance_cycle", "distance_swim"} \cap DOMAIN s)

-----------------------------------------------------------------------------
(* The collection and the dashboard *)

\* db.collection("workouts").add(data)
AddDoc(bag, doc) == bag (+) SetToBag({doc})

\* delete_workout: db.collection("workouts").document(workout_id).delete()
delete_workout(bag, doc) == bag (-) SetToBag({doc})

\* df[df['category'] == activity_filter], or df.copy() for "All Activities"
FilterDocs(bag, filter) ==
    [d \in {x \in BagToSet(bag) : filter = AllActivities \/ x.category = filter} |-> bag[d]]

\* The options of the "Filter Activity" selectbox
FilterOptions(bag) == {AllActivities} \cup {d.category : d \in BagToSet(bag)}

\* The label resample('W-MON') gives a date: weeks end on Monday, bins are
\* closed and labelled on the right, so it is the first Monday on or after it
WeekLabel(day) == day + ((7 - DayOfWeek(day)) % 7)

RECURSIVE SumDuration(_, _)
SumDuration(bag, docs) ==
    IF docs = {} THEN 0
    ELSE LET d == CHOOSE x \in docs : TRUE
         IN  d.duration_min * bag[d] + SumDuration(bag, docs \ {d})

SetMin(S) == CHOOSE x \in S : \A y \in S : x <= y

SetMax(S) == CHOOSE x \in S : \A y \in S : x >= y

\* Variant: a groupby on the week label, which keeps only the weeks that
\* hold a record
ResampleWeekly_Sparse(bag) ==
    IF bag = EmptyBag THEN <<>>
    ELSE
    LET labels == {WeekLabel(ToDatetime(d.date)) : d \in BagToSet(bag)}
        lo     == SetMin(labels)
        n      == (SetMax(labels) - lo) \div 7 + 1
        all    == [i \in 1..n |->
                     [date         |-> lo + 7 * (i - 1),
                      duration_min |-> SumDuration(bag,
                          {d \in BagToSet(bag) :
                              WeekLabel(ToDatetime(d.date)) = lo + 7 * (i - 1)})]]
    IN  SelectSeq(all, LAMBDA row : row.date \in labels)

\* df_filtered.set_index('date').resample('W-MON')[['duration_min']].sum().reset_index():
\* one row for every Monday from the first label to the last, the sum of an
\* empty bin being 0
ResampleWeekly(bag) ==
    IF bag = EmptyBag THEN <<>>
    ELSE
    LET labels == {WeekLabel(ToDatetime(d.date)) : d \in BagToSet(bag)}
        lo     == SetMin(labels)
        n      == (SetMax(labels) - lo) \div 7 + 1
    IN  [i \in 1..n |->
            [date         |-> lo + 7 * (i - 1),
             duration_min |-> SumDuration(bag,
                 {d \in BagToSet(bag) : WeekLabel(ToDatetime(d.date)) = lo + 7 * (i - 1)})]]

\* a >= b of two Timestamps, a at midnight
MidnightNotBefore(day, b) == IF b.late THEN day > b.day ELSE day >= b.day

\* last_12 = pd.Timestamp.now() - pd.Timedelta(weeks=12)
Last12(now) == [day |-> now.day - WindowWeeks * 7, late |-> now.late]

\* Variant: the chart without the 12-week cut
Last12Weeks_Uncut(df_weekly, now) == df_weekly

\* df_weekly[df_weekly['date'] >= last_12]
Last12Weeks(df_weekly, now) ==
    SelectSeq(df_weekly, LAMBDA row : MidnightNotBefore(row.date, Last12(now)))

NoDash == [now |-> [day |-> 0, late |-> FALSE], df_weekly |-> <<>>, df_viz |-> <<>>]

\* The "Dashboard" branch of the script (the weekly chart)
DashboardPage(bag, filter, now) ==
    IF bag = EmptyBag THEN NoDash
    ELSE LET df_weekly == ResampleWeekly(FilterDocs(bag, filter))
         IN  [now |-> now, df_weekly |-> df_weekly, df_viz |-> Last12Weeks(df_weekly, now)]

-----------------------------------------------------------------------------
(* Input sets.  A profile names the values the user and the clock supply. *)

BaseDay == ToDatetime(<<2024, 1, 8>>)

\* The text "5:30" typed into the Pace field
PaceText == <<"5", ":", "3", "0">>

\* A filling is what the user types into the form before pressing the
\* button: some of the form's widgets, each with a value.  A profile also
\* names the categories and dates picked outside the form and the instants
\* the clock shows.
FormProfile ==
    [categories  |-> Range(Categories),
     dates       |-> {BaseDay + 1},
     fillings    |-> {[subtype_run |-> "Workout", subtype_ride |-> "Workout"],
                      [subtype_run |-> "Long Run", subtype_ride |-> "Easy Spin",
                       structure_input |-> "8x400m"],
                      [structure_input |-> "8x400m", duration |-> 45, rpe |-> 8,
                       notes |-> "legs heavy"],
                      [distance |-> 500, manual_pace |-> TRUE,
                       distance_cycle |-> 2000, distance_swim |-> 150],
                      [pace_input |-> PaceText],
                      [duration |-> 0, rpe |-> 11, distance |-> -100, manual_pace |-> FALSE,
                       distance_cycle |-> -100, distance_swim |-> -50]},
     nows        |-> {[day |-> BaseDay, late |-> TRUE]},
     maxConfirms |-> MaxFormConfirms]

PaceProfile ==
    [categories  |-> {"Running", "Cycling"},
     dates       |-> {BaseDay + 1},
     fillings    |-> [duration : {0, 4, 30}, distance : {-50, 300, 500, 625},
                      manual_pace : BOOLEAN]
                     \cup [duration : {0, 4, 30}, distance_cycle : {-100, 25, 2000}]
                     \cup {[pace_input |-> PaceText]},
     nows        |-> {[day |-> BaseDay, late |-> TRUE]},
     maxConfirms |-> MaxFormConfirms]

DashProfile ==
    [categories  |-> {"Running", "Gym"},
     dates       |-> {BaseDay + k : k \in {0, 1, 7, 14, 15}},
     fillings    |-> {},
     nows        |-> {[day |-> BaseDay + k, late |-> l] : k \in {84, 98}, l \in BOOLEAN},
     maxConfirms |-> MaxDashConfirms]

\* The session after the form's widgets delivered their values.  A widget
\* takes the filling's value when it is on screen and admits the value, and
\* keeps the value shown otherwise; the checkbox "Ready to Save?" is left as
\* the user set it.
Deliver(s, fill, confirm) ==
    [k \in DOMAIN s |->
        IF k = "confirm_save" THEN confirm
        ELSE IF /\ k \in InFormKeys /\ k \in Rendered /\ k \in DOMAIN fill
                /\ WidgetAdmits(k, fill[k])
        THEN fill[k]
        ELSE s[k]]

-----------------------------------------------------------------------------
(* Steps *)

Init ==
    /\ page = Pages[1]
    /\ ss = EmptyState
    /\ assigned = {}
    /\ store = EmptyBag
    /\ pc = "rerun"
    /\ activity_filter = AllActivities
    /\ dash = NoDash
    /\ nConfirm = 0
    /\ nAdded = 0

\* One run of the script, top to bottom, for the page selected
RunScript(P) ==
    /\ pc = "rerun"
    /\ \E now \in P.nows :
         LET onLog == page = "Log Workout"
             s1    == IF onLog THEN LogWorkoutPage(ss, now.day) ELSE ss
             keys  == IF onLog THEN LogWidgets(ss) ELSE {}
         IN  /\ ss' = RemoveStaleWidgets(s1, keys, assigned)
             /\ assigned' = assigned \ keys
             /\ dash' = IF page = "Dashboard"
                        THEN DashboardPage(store, activity_filter, now)
                        ELSE NoDash
    /\ pc' = "idle"
    /\ UNCHANGED <<page, store, activity_filter, nConfirm, nAdded>>

\* The sidebar radio
Navigate ==
    /\ pc = "idle"
    /\ \E p \in Range(Pages) \ {page} : page' = p
    /\ activity_filter' = AllActivities
    /\ pc' = "rerun"
    /\ UNCHANGED <<ss, assigned, store, dash, nConfirm, nAdded>>

\* st.date_input("Date", ..., key='date'), outside the form
SetDate(P) ==
    /\ pc = "idle"
    /\ page = "Log Workout"
    /\ nAdded < P.maxConfirms
    /\ \E d \in P.dates \ {ss.date} : ss' = Put(ss, "date", d)
    /\ pc' = "rerun"
    /\ UNCHANGED <<page, assigned, store, activity_filter, dash, nConfirm, nAdded>>

\* st.selectbox("Category", ..., key='category'), outside the form
SetCategory(P) ==
    /\ pc = "idle"
    /\ page = "Log Workout"
    /\ nAdded < P.maxConfirms
    /\ \E c \in {x \in P.categories : WidgetAdmits("category", x)} \ {ss.category} :
         ss' = Put(ss, "category", c)
    /\ pc' = "rerun"
    /\ UNCHANGED <<page, assigned, store, activity_filter, dash, nConfirm, nAdded>>

\* st.form_submit_button("Save to Cloud", on_click=save_workout_callback): the
\* widgets of the form deliver their values, then the callback is due
FormSubmit(P) ==
    /\ pc = "idle"
    /\ page = "Log Workout"
    /\ \E fill \in P.fillings \cup {EmptyState}, confirm \in BOOLEAN :
         LET s1     == Deliver(ss, fill, confirm)
             ticked == confirm /\ ~ss.confirm_save
         IN  /\ ticked => nConfirm < P.maxConfirms
             /\ s1 # ss => nAdded < P.maxConfirms
             /\ ss' = s1
             /\ nConfirm' = IF ticked THEN nConfirm + 1 ELSE nConfirm
    /\ pc' = "callback"
    /\ UNCHANGED <<page, assigned, store, activity_filter, dash, nAdded>>

\* def save_workout_callback()
save_workout_callback ==
    /\ pc = "callback"
    /\ IF NotConfirmed(ss)
       THEN /\ ss' = Put(ss, "warning_msg", WarningText)
            /\ pc' = "rerun"
            /\ UNCHANGED <<assigned, store, nAdded>>
       ELSE IF RaisesAttributeError(ss)
       THEN /\ pc' = "idle"
            /\ UNCHANGED <<ss, assigned, store, nAdded>>
       ELSE \E rd \in FloatOutcomes(ss) :
              LET doc == BuildDoc(ss, rd)
              IN  IF doc.pace = ZeroDivisionError
                  THEN /\ pc' = "idle"
                       /\ UNCHANGED <<ss, assigned, store, nAdded>>
                  ELSE /\ store' = AddDoc(store, doc)
                       /\ ss' = ResetInputs(ss)
                       /\ assigned' = assigned \cup ResetKeys(ss)
                       /\ nAdded' = nAdded + 1
                       /\ pc' = "rerun"
    /\ UNCHANGED <<page, activity_filter, dash, nConfirm>>

\* st.selectbox("Filter Activity", ...) of the dashboard
SetFilter ==
    /\ pc = "idle"
    /\ page = "Dashboard"
    /\ \E f \in FilterOptions(store) \ {activity_filter} : activity_filter' = f
    /\ pc' = "rerun"
    /\ UNCHANGED <<page, ss, assigned, store, dash, nConfirm, nAdded>>

\* The "Delete Workout" button of the history page, with the id of a document
DeleteWorkout ==
    /\ pc = "idle"
    /\ page = "History / Edit"
    /\ \E d \in BagToSet(store) : store' = delete_workout(store, d)
    /\ pc' = "rerun"
    /\ UNCHANGED <<page, ss, assigned, activity_filter, dash, nConfirm, nAdded>>

NextP(P) ==
    \/ RunScript(P)
    \/ Navigate
    \/ SetDate(P)
    \/ SetCategory(P)
    \/ FormSubmit(P)
    \/ save_workout_callback
    \/ SetFilter
    \/ DeleteWorkout

Next == NextP(FormProfile)

NextPace == NextP(PaceProfile)

NextDash == NextP(DashProfile)

\* The form and its callback
Spec == Init /\ [][Next]_vars

\* The pace arithmetic over a wider range of durations and distances
SpecPace == Init /\ [][NextPace]_vars

\* The dashboard over documents spread across weeks
SpecDash == Init /\ [][NextDash]_vars

-----------------------------------------------------------------------------
(* Properties *)

\* The step is a run of save_workout_callback
CallbackStep == pc = "callback" /\ pc' # "callback"

\* The step adds a document to the collection, and doc is that document
Adds(doc) == store' = AddDoc(store, doc)

RecordAdded == BagCardinality(store') > BagCardinality(store)

\* C1: a run of save_workout_callback with confirm_save false adds no record,
\* sets warning_msg and leaves every other key of the session as it was; the
\* collection grows only in a run of the callback that finds confirm_save true.
C1_ConfirmGate ==
    [][/\ (CallbackStep /\ ~ss.confirm_save) =>
             /\ store' = store
             /\ ss'.warning_msg = WarningText
             /\ DOMAIN ss' = DOMAIN ss \cup {"warning_msg"}
             /\ \A k \in DOMAIN ss \ {"warning_msg"} : ss'[k] = ss[k]
       /\ RecordAdded => (CallbackStep /\ ss.confirm_save)]_vars

\* The callback has just refused an unconfirmed form whose fields were edited
C1_Refused ==
    /\ pc = "rerun"
    /\ Has(ss, "warning_msg") /\ ss.warning_msg = WarningText
    /\ ~ss.confirm_save
    /\ ss.rpe = 8 /\ ss.notes = "legs heavy" /\ ss.duration = 45
    /\ store = EmptyBag

\* C2: every persisted record has structure "" unless its sub_type is
\* "Workout" under Running or Cycling, whatever text the session holds in
\* structure_input.
C2_StructureOnlyForIntervals ==
    \A d \in BagToSet(store) :
        d.structure # "" => (d.sub_type = "Workout" /\ d.category \in {"Running", "Cycling"})

\* A confirmed save is about to read a session that holds a non-empty
\* structure_input under a sub-type that is not "Workout", and drops the text
C2_StaleStructure ==
    /\ pc = "callback"
    /\ ss.confirm_save
    /\ ~RaisesAttributeError(ss)
    /\ Has(ss, "structure_input") /\ ss.structure_input = "8x400m"
    /\ ss.category = "Running" /\ ss.subtype_run = "Long Run"
    /\ StructureOf(ss) = ""

\* floor(duration_min / distance_km) and floor of the fraction times 60, in
\* exact arithmetic, printed as M:SS /km
ExactPace(duration, distance) ==
    LET M  == (duration * 100) \div distance
        SS == ((duration * 100 - M * distance) * 60) \div distance
    IN  Str(M) \o <<":">> \o Fmt02d(SS) \o <<" ", "/", "k", "m">>

\* C3: a Running save with distance_km > 0 and no manual pace stores the pace
\* "M:SS /km", M = floor(duration_min / distance_km) and
\* SS = floor((duration_min / distance_km - M) * 60).
C3_PaceFormula ==
    [][(/\ CallbackStep /\ ss.confirm_save /\ ~RaisesAttributeError(ss)
        /\ ss.category = "Running" /\ ~ss.manual_pace /\ ss.distance > 0)
       => \E d \in BagToSet(store') :
              Adds(d) /\ d.pace = ExactPace(ss.duration, ss.distance)]_vars

C6_DistanceNonNegative ==
    \A d \in BagToSet(store) :
        /\ d.distance_km >= 0
        /\ d.category \in {"Gym", "Stretching"} => d.distance_km = 0

\* The Monday at or before a date
MondayAtOrBefore(day) == day - DayOfWeek(day)

\* The documents the weekly chart on screen was computed from
Charted == FilterDocs(store, activity_filter)

ChartShown == page = "Dashboard" /\ pc = "idle" /\ store # EmptyBag

\* C7: every (filtered) record is counted in the bucket keyed by the Monday at
\* or before its date, and a bucket's value is the sum of duration_min of the
\* records of the week that starts on its key.
C7_KeyedByWeekStart ==
    ChartShown =>
        \A d \in BagToSet(Charted) :
            \E i \in DOMAIN dash.df_weekly :
                LET row == dash.df_weekly[i]
                IN  /\ row.date = MondayAtOrBefore(ToDatetime(d.date))
                    /\ row.duration_min = SumDuration(Charted,
                           {x \in BagToSet(Charted) :
                               MondayAtOrBefore(ToDatetime(x.date)) = row.date})

\* C8 as stated: every bucket of the weekly series holds a record, so a week
\* without records has no bucket.
C8_Sparse ==
    ChartShown =>
        \A i \in DOMAIN dash.df_weekly :
            /\ dash.df_weekly[i].duration_min # 0
            /\ \E d \in BagToSet(Charted) :
                   /\ ToDatetime(d.date) >= dash.df_weekly[i].date - 6
                   /\ ToDatetime(d.date) <= dash.df_weekly[i].date + 6

\* C8, amended: the weekly series has one bucket for every week from the
\* first week that holds a (filtered) record to the last, keys seven days
\* apart; the first and the last bucket hold a record, and a week in between
\* without records has a bucket of value 0.
C8_Contiguous ==
    ChartShown =>
        LET w       == dash.df_weekly
            held(i) == {d \in BagToSet(Charted) : WeekLabel(ToDatetime(d.date)) = w[i].date}
        IN  /\ Charted # EmptyBag => Len(w) >= 1
            /\ \A i \in DOMAIN w :
                   /\ i > 1 => w[i].date = w[i - 1].date + 7
                   /\ i \in {1, Len(w)} => held(i) # {}
                   /\ held(i) = {} => w[i].duration_min = 0
                   /\ w[i].duration_min = SumDuration(Charted, held(i))
            /\ \A d \in BagToSet(Charted) :
                   \E i \in DOMAIN w : d \in held(i)

\* The chart shows a zero bucket between two weeks that hold records
C8_GapWeek ==
    /\ ChartShown
    /\ \E i \in DOMAIN dash.df_weekly :
           /\ 1 < i /\ i < Len(dash.df_weekly)
           /\ dash.df_weekly[i].duration_min = 0
           /\ dash.df_weekly[i - 1].duration_min > 0
           /\ dash.df_weekly[i + 1].duration_min > 0

\* The key lies more than 12 weeks before the instant now
MoreThan12WeeksBefore(key, now) ==
    \/ now.day - key > 7 * WindowWeeks
    \/ now.day - key = 7 * WindowWeeks /\ now.late

C10_OncePerConfirmation ==
    /\ [](nAdded <= nConfirm)
    /\ [][RecordAdded =>
            /\ BagCardinality(store') = BagCardinality(store) + 1
            /\ ss.confirm_save /\ ~ss'.confirm_save
            /\ ss'.duration = 30 /\ ss'.notes = "" /\ ss'.rpe = 5
            /\ ~ss'.manual_pace /\ ss'.pace_input = <<>>
            /\ \A k \in {"distance", "distance_cycle", "distance_swim"} \cap DOMAIN ss' :
                   ss'[k] = 0
            /\ Has(ss', "structure_input") => ss'.structure_input = ""]_vars

\* After a save the button was pressed again with the form untouched: the
\* callback refused, and the collection still holds the one record
C10_SecondPressRefused ==
    /\ pc = "rerun"
    /\ nAdded = 1 /\ nConfirm = 1 /\ BagCardinality(store) = 1
    /\ Has(ss, "warning_msg") /\ ss.warning_msg = WarningText
    /\ ss.duration = 30 /\ ss.rpe = 5 /\ ~ss.confirm_save

====
